---------------------------- MODULE Spec2Model ----------------------------
(***************************************************************************)
(* A model of hdx-scraper-global-boundaries: boundaries.py (the class      *)
(* Boundaries) and run.py (main).                                          *)
(*                                                                         *)
(* Python strings that the code inspects (resource names, shapefile paths, *)
(* column names, pcodes, level identifiers) are sequences of one-character *)
(* strings, so that upper(), replace(), the regular expressions and the    *)
(* string order of sort_values are computed character by character.        *)
(* Strings that the code only compares for equality (country codes, the    *)
(* geometry kind, unit names) are TLA+ strings.  Geometry values are not   *)
(* modelled: a layer is its attribute table.                               *)
(***************************************************************************)
EXTENDS Integers, Sequences, FiniteSets, TLC

VARIABLES
    boundaries,   \* self.boundaries: (level, geometry kind) -> partition
    call,         \* the arguments of the last replace_country_boundaries call
    args,         \* the arguments of a helper function under test
    result,       \* what the helper returned (Pending before the call)
    pc,           \* where main stands
    ci,           \* the index of the country main is at
    li,           \* the index of the level update_subnational_boundaries is at
    dataset,      \* the resources of the country's boundary dataset
    boundary_resource,   \* what find_resource returned for the level
    boundary_shp,        \* what find_shapefile returned for the level
    boundary_lyr,        \* the layer of the level, as far as it is processed
    log,          \* what became of each country and level so far
    writers,      \* concurrent merges: each writer's position, layer and local frame
    atomic        \* whether the concurrent merges hold the partition's mutex

mergeVars == << boundaries, call >>
funVars == << args, result >>
runVars == << pc, ci, li, dataset, boundary_resource, boundary_shp, boundary_lyr, log >>
concVars == << writers, atomic >>
vars == << boundaries, call, args, result, pc, ci, li, dataset, boundary_resource,
           boundary_shp, boundary_lyr, log, writers, atomic >>

\* result before the helper has run, and once it has returned v
Pending == [done |-> FALSE, value |-> << >>]
Returned(v) == [done |-> TRUE, value |-> v]

\* the value of a variable that a specification does not use
Idle == "idle"

\* no replace_country_boundaries call has been made yet
\* the variables of main and of the concurrent writers, when unused
RunIdle ==
    /\ pc = Idle /\ ci = 0 /\ li = 0 /\ dataset = << >> /\ boundary_resource = << >>
    /\ boundary_shp = << >> /\ boundary_lyr = Idle /\ log = << >>

ConcIdle == writers = << >> /\ atomic = FALSE

NoCall == [iso |-> << >>, level |-> << >>, geom_type |-> "", boundaries |-> << >>]

-----------------------------------------------------------------------------
(* Characters and strings *)

\* The characters the model uses, in code-point order (Python's str order).
Ascii ==
    << " ", "#", ".", "/", "0", "1", "2", "3", "4", "5", "6", "7", "8", "9",
       "A", "B", "C", "D", "E", "F", "G", "H", "I", "J", "K", "L", "M",
       "N", "O", "P", "Q", "R", "S", "T", "U", "V", "W", "X", "Y", "Z",
       "_",
       "a", "b", "c", "d", "e", "f", "g", "h", "i", "j", "k", "l", "m",
       "n", "o", "p", "q", "r", "s", "t", "u", "v", "w", "x", "y", "z" >>

OrdTable == [c \in { Ascii[i] : i \in 1..Len(Ascii) } |-> CHOOSE i \in 1..Len(Ascii) : Ascii[i] = c]

\* ord(c), counted from the first character of the table
Ord(c) == OrdTable[c]

FirstUpper == Ord("A")
FirstLower == Ord("a")

IsUpperChar(c) == Ord(c) >= FirstUpper /\ Ord(c) < FirstUpper + 26
IsLowerChar(c) == Ord(c) >= FirstLower /\ Ord(c) < FirstLower + 26

UpperChar(c) == IF IsLowerChar(c) THEN Ascii[Ord(c) - FirstLower + FirstUpper] ELSE c
LowerChar(c) == IF IsUpperChar(c) THEN Ascii[Ord(c) - FirstUpper + FirstLower] ELSE c

\* str.upper() and the case folding of re.IGNORECASE
Upper(s) == [i \in 1..Len(s) |-> UpperChar(s[i])]
Lower(s) == [i \in 1..Len(s) |-> LowerChar(s[i])]

\* the literal lit stands in s at position i
StartsAt(s, i, lit) ==
    /\ i >= 1
    /\ i + Len(lit) - 1 <= Len(s)
    /\ \A k \in 1..Len(lit) : s[i + k - 1] = lit[k]

\* Python's order of str: by code point, a proper prefix first
StrLess(s, t) ==
    \/ Len(s) < Len(t) /\ \A k \in 1..Len(s) : s[k] = t[k]
    \/ \E i \in 1..Len(s) :
          /\ i <= Len(t)
          /\ \A k \in 1..(i - 1) : s[k] = t[k]
          /\ Ord(s[i]) < Ord(t[i])

StrLE(s, t) == s = t \/ StrLess(s, t)

\* level[-1]
LastChar(level) == level[Len(level)]

\* int(level[-1])
Depth(level) == Ord(LastChar(level)) - Ord("0")

L_adm1 == << "a", "d", "m", "1" >>
L_adm2 == << "a", "d", "m", "2" >>

-----------------------------------------------------------------------------
(* The Global Boundary Set and replace_country_boundaries *)

Levels == { L_adm1, L_adm2 }
GeomTypes == { "polygon", "point" }
Keys == Levels \X GeomTypes

\* A canonical record: alpha_3, the pcodes ADM1_PCODE .. ADM{depth}_PCODE and
\* the name of the unit (ADM{depth}_REF).
Rec(iso, pcodes, ref) == [alpha_3 |-> iso, PCODE |-> pcodes, REF |-> ref]

\* the column f"ADM{level[-1]}_PCODE" of a record
LevelPcode(r, level) == r.PCODE[Depth(level)]

IsSortedBy(seq, level) ==
    \A i \in 1..(Len(seq) - 1) :
        StrLE(LevelPcode(seq[i], level), LevelPcode(seq[i + 1], level))

SeqToSet(seq) == { seq[i] : i \in 1..Len(seq) }

\* how often record r occurs in seq
Count(seq, r) == Cardinality({ i \in 1..Len(seq) : seq[i] = r })

SelectSeqBy(seq, iso, keepIso) ==
    SelectSeq(seq, LAMBDA r : (r.alpha_3 = iso) = keepIso)

\* a merge that forgets the filter on alpha_3
OtherCountries_KeepAll(seq, iso) == seq

\* self.boundaries[key][self.boundaries[key]["alpha_3"] != iso]
OtherCountries(seq, iso) == SelectSeqBy(seq, iso, FALSE)

\* DataFrame.sort_values(by=[f"ADM{level[-1]}_PCODE"]) with the default
\* kind="quicksort", which is not a stable sort: the rows come out in
\* ascending order of the key, and rows with equal keys in an order the call
\* does not fix.
SortValues(seq, level) ==
    { t \in { [i \in 1..Len(seq) |-> seq[p[i]]] : p \in Permutations(1..Len(seq)) } :
        IsSortedBy(t, level) }

\* an append that keeps only the appended rows
DataFrameAppend_OnlyOther(frame, other) == other

\* global_bounds.append(boundaries): the rows of the frame, then the new rows
DataFrameAppend(frame, other) == frame \o other

\* The partitions replace_country_boundaries can leave behind.
ReplaceCountryBoundaries(bnds, layer, iso, level, geom_type) ==
    LET key == << level, geom_type >>
        global_bounds == DataFrameAppend(OtherCountries(bnds[key], iso), layer)
    IN  { [bnds EXCEPT ![key] = sorted] : sorted \in SortValues(global_bounds, level) }

-----------------------------------------------------------------------------
(* Sequences of replace_country_boundaries calls *)

AAA == << "A", "A", "A" >>
BBB == << "B", "B", "B" >>
ZZZ == << "Z", "Z", "Z" >>

Countries == { AAA, BBB }

\* the partitions the merge sequences work on
MergeKeys == { << L_adm1, "polygon" >>, << L_adm2, "point" >> }

P_none == << >>
P_1 == << "1" >>
P_10 == << "1", "0" >>
P_2 == << "2" >>

\* The finished layers of a country at a level (the layers a caller passes
\* in: every record carries the country's alpha_3, and no two records of a
\* layer agree on all canonical attributes, which dissolve guarantees).
LayerPool(iso, level) ==
    IF level = L_adm1
    THEN { << >>,
           << Rec(iso, << P_1 >>, "North"), Rec(iso, << P_2 >>, "South") >>,
           << Rec(iso, << P_10 >>, "North") >>,
           << Rec(iso, << P_none >>, "North") >> }
    ELSE { << >>,
           << Rec(iso, << P_2, P_1 >>, "North"), Rec(iso, << P_1, P_2 >>, "South") >>,
           << Rec(iso, << P_1, P_10 >>, "North") >>,
           << Rec(iso, << P_1, P_none >>, "North") >> }

\* What download_boundary_inputs loads: the partitions as an earlier run
\* uploaded them, here empty or holding one record of a third country.
InitialPartitions(level) ==
    { << >>,
      IF level = L_adm1 THEN << Rec(ZZZ, << P_10 >>, "East") >>
                        ELSE << Rec(ZZZ, << P_1, P_10 >>, "East") >> }

InitMerge ==
    /\ boundaries \in { b \in [MergeKeys -> UNION { InitialPartitions(l) : l \in Levels }] :
                          \A k \in MergeKeys : b[k] \in InitialPartitions(k[1]) }
    /\ call = NoCall
    /\ args = Idle
    /\ result = Idle
    /\ RunIdle
    /\ ConcIdle

Merge ==
    \E iso \in Countries, key \in MergeKeys :
        \E layer \in LayerPool(iso, key[1]) :
            /\ boundaries' \in ReplaceCountryBoundaries(boundaries, layer, iso, key[1], key[2])
            /\ call' = [iso |-> iso, level |-> key[1], geom_type |-> key[2], boundaries |-> layer]
            /\ UNCHANGED << funVars, runVars, concVars >>

NextMerge == Merge

SpecMerge == InitMerge /\ [][NextMerge]_vars

\* the same records, each as often, in any order
SameRecords(s, t) ==
    \A r \in SeqToSet(s) \cup SeqToSet(t) : Count(s, r) = Count(t, r)

CallKey(c) == << c.level, c.geom_type >>

\* C2: a replace_country_boundaries call leaves the records of every other
\* country in the partition as they were (none added, removed or changed),
\* makes the records of the country exactly the new records, and leaves
\* every other partition unchanged.
C2_MergeFrame ==
    [][ LET c == call'
            key == CallKey(c)
        IN  /\ SameRecords(SelectSeqBy(boundaries'[key], c.iso, FALSE),
                            SelectSeqBy(boundaries[key], c.iso, FALSE))
            /\ SameRecords(SelectSeqBy(boundaries'[key], c.iso, TRUE), c.boundaries)
            /\ \A k \in DOMAIN boundaries : k # key => boundaries'[k] = boundaries[k]
      ]_vars

\* The last merge put one record of country AAA into a partition that also
\* holds records of two other countries, while the other partition holds
\* more than one record.
C2_Witness ==
    /\ call # NoCall
    /\ call.iso = AAA
    /\ Len(call.boundaries) = 1
    /\ \E i, j \in 1..Len(boundaries[CallKey(call)]) :
          /\ boundaries[CallKey(call)][i].alpha_3 = BBB
          /\ boundaries[CallKey(call)][j].alpha_3 = ZZZ
    /\ \E k \in DOMAIN boundaries : k # CallKey(call) /\ Len(boundaries[k]) > 1

OneBlockPerCountry(seq) ==
    \A i, j \in 1..Len(seq) :
        (i < j /\ seq[i].alpha_3 = seq[j].alpha_3) =>
            \A k \in i..j : seq[k].alpha_3 = seq[i].alpha_3

\* C4: after any sequence of replace_country_boundaries calls every
\* partition is sorted by its level's pcode and holds the records of each
\* country in at most one contiguous block.
C4_SortedOneBlock ==
    \A k \in DOMAIN boundaries :
        IsSortedBy(boundaries[k], k[1]) /\ OneBlockPerCountry(boundaries[k])

-----------------------------------------------------------------------------
(* find_resource *)

\* the literal lit occurs in s, letter case ignored: re.match(f".*{lit}.*", s, re.IGNORECASE)
ContainsFold(s, lit) ==
    \E i \in 1..Len(s) : StartsAt(Lower(s), i, Lower(lit))

\* \s
IsSpaceAt(s, i) == i >= 1 /\ i <= Len(s) /\ s[i] = " "

\* re.match(f".*adm(in)?(\s)?(0)?{level[-1]}.*", name, re.IGNORECASE)
ResourceLevelMatch(name, level) ==
    LET s == Lower(name)
        d == << LowerChar(LastChar(level)) >>
    IN  \E i \in 1..Len(s) :
            /\ StartsAt(s, i, << "a", "d", "m" >>)
            /\ \E a \in {0, 2}, b \in {0, 1}, c \in {0, 1} :
                  /\ a = 2 => StartsAt(s, i + 3, << "i", "n" >>)
                  /\ b = 1 => IsSpaceAt(s, i + 3 + a)
                  /\ c = 1 => StartsAt(s, i + 3 + a + b, << "0" >>)
                  /\ StartsAt(s, i + 3 + a + b + c, d)

\* configuration.get("resource_exceptions", {}): here one country has an override
ResourceExceptions == [iso \in { BBB } |-> << "b", "n", "d" >>]

\* self.exceptions["resource"].get(iso, "adm")
ResourceName(iso) ==
    IF iso \in DOMAIN ResourceExceptions THEN ResourceExceptions[iso] ELSE << "a", "d", "m" >>

\* a narrowing that is applied to a single candidate too
ShouldNarrow_Always(found) == TRUE

\* len(found) > 1
ShouldNarrow(found) == Len(found) > 1

FindResource(iso, resources, level) ==
    LET found ==
            SelectSeq(resources, LAMBDA r :
                r.file_type = "shp" /\ ContainsFold(r.name, ResourceName(iso)))
    IN  IF ShouldNarrow(found)
        THEN SelectSeq(found, LAMBDA r : ResourceLevelMatch(r.name, level))
        ELSE found

Resource(name, file_type) == [name |-> name, file_type |-> file_type]

R_adm2 == Resource(<< "a", "b", "c", "_", "a", "d", "m", "2", "_", "s", "h", "p" >>, "shp")
R_adm1 == Resource(<< "a", "b", "c", "_", "a", "d", "m", "1", "_", "s", "h", "p" >>, "shp")
R_admin02 == Resource(<< "A", "B", "C", " ", "A", "d", "m", "i", "n", " ", "0", "2" >>, "shp")
R_bnd == Resource(<< "a", "b", "c", "_", "B", "N", "D", "_", "1" >>, "shp")
R_json == Resource(<< "a", "b", "c", "_", "a", "d", "m", "2", "_", "g", "e", "o", "j", "s", "o", "n" >>, "geojson")
R_roads == Resource(<< "a", "b", "c", "_", "r", "o", "a", "d", "s", "_", "s", "h", "p" >>, "shp")

ResourcePool == { R_adm2, R_adm1, R_admin02, R_bnd, R_json, R_roads }

MaxResources == 3

\* the sequences of at most n different elements of S
DistinctSeqs(S, n) ==
    UNION { { s \in [1..k -> S] : \A i, j \in 1..k : i # j => s[i] # s[j] } : k \in 0..n }

InitFindResource ==
    /\ args \in { [iso |-> iso, dataset |-> ds, level |-> level] :
                    iso \in Countries, ds \in DistinctSeqs(ResourcePool, MaxResources),
                    level \in Levels }
    /\ result = Pending
    /\ boundaries = Idle
    /\ call = NoCall
    /\ RunIdle
    /\ ConcIdle

CallFindResource ==
    /\ result = Pending
    /\ result' = Returned(FindResource(args.iso, args.dataset, args.level))
    /\ UNCHANGED << args, boundaries, call, runVars, concVars >>

NextFindResource == CallFindResource

SpecFindResource == InitFindResource /\ [][NextFindResource]_vars

\* The claim's own reading of the rules: the token matches when the name, in
\* lower case, holds the token in lower case; the name references the level
\* when it holds "adm" or "admin", then at most one blank, then at most one
\* zero, then the level's numeral.
TokenCandidates(a) ==
    SelectSeq(a.dataset, LAMBDA r :
        /\ r.file_type = "shp"
        /\ ContainsFold(r.name, IF a.iso = BBB THEN << "b", "n", "d" >> ELSE << "a", "d", "m" >>))

LevelSpellings(level) ==
    { stem \o blank \o zero \o << LastChar(level) >> :
        stem \in { << "a", "d", "m" >>, << "a", "d", "m", "i", "n" >> }, blank \in { << >>, << " " >> }, zero \in { << >>, << "0" >> } }

ReferencesLevel(name, level) ==
    \E sp \in LevelSpellings(level) : ContainsFold(name, sp)

\* C7: find_resource returns the shapefile-archive candidates whose name
\* matches the country's override token (or the default token) whatever the
\* letter case; exactly when more than one such candidate remains it keeps
\* those whose name references the level's numeral, which may leave none,
\* one or many; and of "abc_adm2_shp" and "abc_adm1_shp" at level adm2 it
\* returns exactly the first.
C7_FindResource ==
    result.done =>
        /\ Len(TokenCandidates(args)) <= 1 => result.value = TokenCandidates(args)
        /\ Len(TokenCandidates(args)) > 1 =>
              result.value = SelectSeq(TokenCandidates(args),
                                       LAMBDA r : ReferencesLevel(r.name, args.level))
        /\ (args.dataset = << R_adm2, R_adm1 >> /\ args.level = L_adm2 /\ args.iso = AAA) =>
              result.value = << R_adm2 >>

\* find_resource has returned for a dataset of three candidates that match
\* the default token, of which it kept the two that reference the level.
C7_Witness ==
    /\ result.done
    /\ args.level = L_adm2
    /\ args.iso = AAA
    /\ args.dataset = << R_adm1, R_admin02, R_adm2 >>
    /\ result.value = << R_admin02, R_adm2 >>

-----------------------------------------------------------------------------
(* find_shapefile *)

\* re.match(f".*admbnda.*adm(in)?(0)?{level[-1]}.*", b, re.IGNORECASE)
ShapefileLevelMatch(b, level) ==
    LET s == Lower(b)
        d == << LowerChar(LastChar(level)) >>
    IN  \E i \in 1..Len(s) :
            /\ StartsAt(s, i, << "a", "d", "m", "b", "n", "d", "a" >>)
            /\ \E j \in (i + 7)..Len(s) :
                  /\ StartsAt(s, j, << "a", "d", "m" >>)
                  /\ \E a \in {0, 2}, c \in {0, 1} :
                        /\ a = 2 => StartsAt(s, j + 3, << "i", "n" >>)
                        /\ c = 1 => StartsAt(s, j + 3 + a, << "0" >>)
                        /\ StartsAt(s, j + 3 + a + c, d)

\* re.match(".*simplified.*", b, re.IGNORECASE)
SimplifiedMatch(b) == ContainsFold(b, << "s", "i", "m", "p", "l", "i", "f", "i", "e", "d" >>)

\* the first pass without its fallback: the matching files, even when none matches
NameFilter_NoFallback(shps, level) ==
    IF Len(shps) > 1
    THEN SelectSeq(shps, LAMBDA b : ShapefileLevelMatch(b, level))
    ELSE shps

\* lines 113-119: the files that follow the naming convention, if any does
NameFilter(shps, level) ==
    IF Len(shps) > 1 /\ \E i \in 1..Len(shps) : ShapefileLevelMatch(shps[i], level)
    THEN SelectSeq(shps, LAMBDA b : ShapefileLevelMatch(b, level))
    ELSE shps

\* lines 121-124: without the simplified files, if any is simplified
SimplifiedFilter(shps) ==
    IF Len(shps) > 1 /\ \E i \in 1..Len(shps) : SimplifiedMatch(shps[i])
    THEN SelectSeq(shps, LAMBDA b : ~SimplifiedMatch(b))
    ELSE shps

\* Python's None, and a returned path, as a sequence of no or one element
None == << >>
Some(x) == << x >>

\* download is "ok" or "DownloadError"; archive is "ok" or "BadZipFile";
\* files is what glob finds in the extracted archive.
FindShapefile(download, archive, files, level) ==
    IF download # "ok" THEN None
    ELSE IF archive # "ok" THEN None
    ELSE IF Len(files) = 0 THEN None
    ELSE LET shps == SimplifiedFilter(NameFilter(files, level))
         IN  IF Len(shps) # 1 THEN None ELSE Some(shps[1])

F_adm2 == << "t", "/", "a", "b", "c", "_", "a", "d", "m", "b", "n", "d", "a", "_", "a", "d", "m", "2", ".", "s", "h", "p" >>
F_adm2_simplified == << "t", "/", "S", "i", "m", "p", "l", "i", "f", "i", "e", "d", "/", "a", "b", "c", "_", "a", "d", "m", "b", "n", "d", "a", "_", "a", "d", "m", "2", ".", "s", "h", "p" >>
F_admin02 == << "t", "/", "A", "B", "C", "_", "A", "D", "M", "B", "N", "D", "A", "_", "A", "d", "m", "i", "n", "0", "2", ".", "s", "h", "p" >>
F_adm1 == << "t", "/", "a", "b", "c", "_", "a", "d", "m", "b", "n", "d", "a", "_", "a", "d", "m", "1", ".", "s", "h", "p" >>
F_roads == << "t", "/", "r", "o", "a", "d", "s", ".", "s", "h", "p" >>
F_roads_simplified == << "t", "/", "r", "o", "a", "d", "s", "_", "s", "i", "m", "p", "l", "i", "f", "i", "e", "d", ".", "s", "h", "p" >>

ShapefilePool == { F_adm2, F_adm2_simplified, F_admin02, F_adm1, F_roads, F_roads_simplified }

MaxShapefiles == 3

InitFindShapefile ==
    /\ args \in { [download |-> dl, archive |-> ar, files |-> fs, level |-> level] :
                    dl \in { "ok", "DownloadError" }, ar \in { "ok", "BadZipFile" },
                    fs \in DistinctSeqs(ShapefilePool, MaxShapefiles), level \in Levels }
    /\ result = Pending
    /\ boundaries = Idle
    /\ call = NoCall
    /\ RunIdle
    /\ ConcIdle

CallFindShapefile ==
    /\ result = Pending
    /\ result' = Returned(FindShapefile(args.download, args.archive, args.files, args.level))
    /\ UNCHANGED << args, boundaries, call, runVars, concVars >>

NextFindShapefile == CallFindShapefile

SpecFindShapefile == InitFindShapefile /\ [][NextFindShapefile]_vars

\* The claim's own reading of the naming convention: the path, in lower
\* case, holds "admbnda" and after it "adm" or "admin", at most one zero and
\* the level's numeral.
ConventionSpellings(level) ==
    { stem \o zero \o << LastChar(level) >> :
        stem \in { << "a", "d", "m" >>, << "a", "d", "m", "i", "n" >> }, zero \in { << >>, << "0" >> } }

FollowsConvention(b, level) ==
    \E i \in 1..Len(b), sp \in ConventionSpellings(level) :
        /\ StartsAt(Lower(b), i, << "a", "d", "m", "b", "n", "d", "a" >>)
        /\ \E j \in (i + 7)..Len(b) : StartsAt(Lower(b), j, sp)

MarkedSimplified(b) == \E i \in 1..Len(b) : StartsAt(Lower(b), i, << "s", "i", "m", "p", "l", "i", "f", "i", "e", "d" >>)

AfterFirstPass(fs, level) ==
    IF Len(fs) > 1 /\ \E i \in 1..Len(fs) : FollowsConvention(fs[i], level)
    THEN SelectSeq(fs, LAMBDA b : FollowsConvention(b, level))
    ELSE fs

AfterBothPasses(fs, level) ==
    IF Len(AfterFirstPass(fs, level)) > 1
    THEN SelectSeq(AfterFirstPass(fs, level), LAMBDA b : ~MarkedSimplified(b))
    ELSE AfterFirstPass(fs, level)

\* C6: of the shapefiles found in the archive, find_shapefile keeps the ones
\* that follow the admin-depth naming convention when there are several
\* files and at least one follows it (all of them when none does), then
\* drops the simplified ones when several remain; it returns a path exactly
\* when one file remains after both passes, and that file, and none
\* otherwise; of two admbnda adm2 files (one simplified) and one unrelated
\* file at level adm2 it returns the admbnda adm2 file that is not simplified.
C6_FindShapefile ==
    (result.done /\ args.download = "ok" /\ args.archive = "ok") =>
        /\ result.value # None <=> Len(AfterBothPasses(args.files, args.level)) = 1
        /\ result.value # None =>
              result.value = Some(AfterBothPasses(args.files, args.level)[1])
        /\ (SeqToSet(args.files) = { F_adm2, F_adm2_simplified, F_roads } /\ args.level = L_adm2) =>
              result.value = Some(F_adm2)

\* find_shapefile has returned the one file left of two, neither of which
\* follows the naming convention of the level (the first pass kept both),
\* after the second pass dropped the simplified one.
C6_Witness ==
    /\ result.done
    /\ args.download = "ok"
    /\ args.archive = "ok"
    /\ args.level = L_adm2
    /\ args.files = << F_roads_simplified, F_adm1 >>
    /\ result.value = Some(F_adm1)

-----------------------------------------------------------------------------
(* Layers, drop_fields and calculate_fields *)

\* A layer (GeoDataFrame) is its column names in order and, per column, the
\* dtype and the values row by row.  A value is the text of the cell; a cell
\* of a numeric column is its decimal literal ("12.0", "nan").  A cell of
\* the geometry column is the list of the parts of the geometry.
Column(dtype, values) == [dtype |-> dtype, values |-> values]

NumRows(lyr) == Len(lyr.col[lyr.columns[1]].values)

IndexOf(seq, x) == CHOOSE i \in 1..Len(seq) : seq[i] = x

\* boundary_lyr[name] = column: in place if the column exists, else appended
SetColumn(lyr, name, column) ==
    [columns |-> IF name \in SeqToSet(lyr.columns) THEN lyr.columns ELSE Append(lyr.columns, name),
     col |-> [n \in SeqToSet(lyr.columns) \cup { name } |-> IF n = name THEN column ELSE lyr.col[n]]]

\* boundary_lyr[name] = scalar
Broadcast(lyr, text) == Column("object", [i \in 1..NumRows(lyr) |-> text])

GEOMETRY_NAME == << "g", "e", "o", "m", "e", "t", "r", "y" >>

\* f.lower() != "geometry", negated
IsGeometryName(f) == Lower(f) = GEOMETRY_NAME

DropFields(df, keep_fields) ==
    LET kept == SelectSeq(df.columns, LAMBDA f : f \in SeqToSet(keep_fields) \/ IsGeometryName(f))
    IN  [columns |-> kept, col |-> [n \in SeqToSet(kept) |-> df.col[n]]]

\* str(l)
DigitChar(l) == Ascii[Ord("0") + l]

\* field.replace("#", str(l))
ReplaceHash(field, l) == [i \in 1..Len(field) |-> IF field[i] = "#" THEN DigitChar(l) ELSE field[i]]

\* f"ADM{l}_PCODE", f"ADM{l}_EN", f"ADM{l}_REF"
AdmField(l, suffix) == << "A", "D", "M" >> \o << DigitChar(l) >> \o suffix

PCODE == << "_", "P", "C", "O", "D", "E" >>
EN == << "_", "E", "N" >>
REF == << "_", "R", "E", "F" >>

\* configuration["shapefile_attribute_mappings"]
Headers ==
    [pcode |-> << << "A", "D", "M", "#", "_", "P", "C", "O", "D", "E" >>, << "A", "D", "M", "#", "_", "C", "O", "D", "E" >>, << "A", "D", "M", "I", "N", "#", "P", "C", "O", "D", "E" >> >>,
     name |-> << << "A", "D", "M", "#", "_", "E", "N" >>, << "A", "D", "M", "#", "_", "N", "A", "M", "E" >>, << "N", "A", "M", "E", "_", "#" >> >>]

\* a search that takes the last matching column
FirstMatch_Last(fields, possible) ==
    LET hits == { i \in 1..Len(fields) : fields[i] # None /\ Upper(fields[i]) \in possible }
    IN  IF hits = {} THEN None ELSE fields[CHOOSE i \in hits : \A j \in hits : j <= i]

\* lines 146-150 for one kind of field: the first column, in column order,
\* whose upper-cased name is a possible field; None if there is none
FirstMatch(fields, possible) ==
    LET hits == { i \in 1..Len(fields) : fields[i] # None /\ Upper(fields[i]) \in possible }
    IN  IF hits = {} THEN None ELSE fields[CHOOSE i \in hits : \A j \in hits : i <= j]

\* lines 138-150 for one kind of field: the exact canonical column if the
\* layer has it, else the first match
SelectField(fields, canonical, patterns, l) ==
    IF canonical \in SeqToSet(fields)
    THEN canonical
    ELSE FirstMatch(fields, { ReplaceHash(patterns[k], l) : k \in 1..Len(patterns) })

IsNumericDtype(dtype) == dtype \in { "int64", "float64" }

\* the digits before the decimal point: the literal of int(v)
IntLiteral(v) ==
    LET dots == { i \in 1..Len(v) : v[i] = "." }
    IN  IF dots = {} THEN v ELSE SubSeq(v, 1, (CHOOSE i \in dots : \A j \in dots : i <= j) - 1)

NaN == << "n", "a", "n" >>

\* Series.astype(int) raises on a value that is not finite
CanCastToInt(column) == \A i \in 1..Len(column.values) : column.values[i] # NaN

\* Series.astype(int).astype(str)
AsIntStr(column) == Column("object", [i \in 1..Len(column.values) |-> IntLiteral(column.values[i])])

\* an outcome of a step that may raise
Ok(lyr) == [raised |-> FALSE, lyr |-> lyr]
Raised == [raised |-> TRUE, lyr |-> [columns |-> << >>, col |-> << >>]]

\* lines 138-168 for the depth l; fields is boundary_lyr.columns as read on line 136
HarmonizeDepth(lyr, fields, l) ==
    LET pcode_field == SelectField(fields, AdmField(l, PCODE), Headers.pcode, l)
        name_field == SelectField(fields, AdmField(l, EN), Headers.name, l)
        named == IF name_field = None
                 THEN SetColumn(lyr, AdmField(l, REF), Broadcast(lyr, << >>))
                 ELSE SetColumn(lyr, AdmField(l, REF), lyr.col[name_field])
    IN  IF pcode_field = None
        THEN Ok(SetColumn(named, AdmField(l, PCODE), Broadcast(lyr, << >>)))
        ELSE IF IsNumericDtype(named.col[pcode_field].dtype)
        THEN IF CanCastToInt(named.col[pcode_field])
             THEN Ok(SetColumn(named, AdmField(l, PCODE), AsIntStr(named.col[pcode_field])))
             ELSE Raised
        ELSE Ok(SetColumn(named, AdmField(l, PCODE), named.col[pcode_field]))

RECURSIVE HarmonizeDepths(_, _, _, _)
\* the loop of line 137, from depth l on
HarmonizeDepths(lyr, fields, l, depth) ==
    IF l > depth THEN Ok(lyr)
    ELSE LET step == HarmonizeDepth(lyr, fields, l)
         IN  IF step.raised THEN Raised ELSE HarmonizeDepths(step.lyr, fields, l + 1, depth)

\* the key of row i: its values in the columns by
RowKey(lyr, by, i) == [k \in 1..Len(by) |-> lyr.col[by[k]].values[i]]

\* the order of tuples of str
RECURSIVE TupleLess(_, _)
TupleLess(a, b) ==
    IF Len(a) = 0 \/ Len(b) = 0 THEN FALSE
    ELSE IF a[1] = b[1] THEN TupleLess(Tail(a), Tail(b))
    ELSE StrLess(a[1], b[1])

\* GeoDataFrame.dissolve(by=by, as_index=False): one row per key, the keys in
\* ascending order; the geometry is the union of the group's geometries, any
\* other column keeps the group's first value; the by columns come first,
\* then the geometry, then the rest.
Dissolve(lyr, by) ==
    LET n == NumRows(lyr)
        keys == { RowKey(lyr, by, i) : i \in 1..n }
        ordered == CHOOSE s \in [1..Cardinality(keys) -> keys] :
                       \A i, j \in 1..Cardinality(keys) : i < j => TupleLess(s[i], s[j])
        members(k) == SelectSeq([i \in 1..n |-> i], LAMBDA i : RowKey(lyr, by, i) = k)
        rest == SelectSeq(lyr.columns, LAMBDA f : f \notin SeqToSet(by) /\ f # GEOMETRY_NAME)
        RECURSIVE Union(_, _)
        Union(column, rows) ==
            IF rows = << >> THEN << >> ELSE column.values[Head(rows)] \o Union(column, Tail(rows))
        columns == by \o << GEOMETRY_NAME >> \o rest
    IN  [columns |-> columns,
         col |-> [f \in SeqToSet(columns) |->
                    Column(lyr.col[f].dtype,
                           [g \in 1..Cardinality(keys) |->
                               IF f = GEOMETRY_NAME
                               THEN Union(lyr.col[f], members(ordered[g]))
                               ELSE lyr.col[f].values[Head(members(ordered[g]))]])]]

\* lines 236-239
ReqFields(level) ==
    << << "a", "l", "p", "h", "a", "_", "3" >>, << "A", "D", "M", "0", "_", "R", "E", "F" >> >> \o
    [k \in 1..(2 * Depth(level)) |->
        IF k % 2 = 1 THEN AdmField((k + 1) \div 2, PCODE) ELSE AdmField(k \div 2, REF)]

CalculateFields(lyr, iso, country_name, req_fields, level) ==
    LET tagged == SetColumn(SetColumn(lyr, << "a", "l", "p", "h", "a", "_", "3" >>, Broadcast(lyr, Upper(iso))),
                            << "A", "D", "M", "0", "_", "R", "E", "F" >>, Broadcast(lyr, country_name))
        fields == tagged.columns
        harmonized == HarmonizeDepths(tagged, fields, 1, Depth(level))
    IN  IF harmonized.raised THEN Raised
        ELSE Ok(Dissolve(DropFields(harmonized.lyr, req_fields), req_fields))

\* the columns of the source layers: name, dtype and the values of two rows
C_ADM1_PCODE == << << "A", "D", "M", "1", "_", "P", "C", "O", "D", "E" >>, Column("float64", << << "1", "2", ".", "0" >>, << "7", ".", "9" >> >>) >>
C_ADM1_EN == << << "A", "D", "M", "1", "_", "E", "N" >>, Column("object", << << "N", "o", "r", "t", "h" >>, << "S", "o", "u", "t", "h" >> >>) >>
C_adm1_code == << << "a", "d", "m", "1", "_", "c", "o", "d", "e" >>, Column("object", << << "A", "1" >>, << "A", "2" >> >>) >>
C_Admin1Pcode == << << "A", "d", "m", "i", "n", "1", "P", "c", "o", "d", "e" >>, Column("int64", << << "5" >>, << "5" >> >>) >>
C_ADM1_CODE == << << "A", "D", "M", "1", "_", "C", "O", "D", "E" >>, Column("float64", << << "3", ".", "0" >>, << "n", "a", "n" >> >>) >>
C_Adm1_Name == << << "A", "d", "m", "1", "_", "N", "a", "m", "e" >>, Column("object", << << "N", "o", "r", "d" >>, << "S", "u", "d" >> >>) >>
C_ADM2_PCODE == << << "A", "D", "M", "2", "_", "P", "C", "O", "D", "E" >>, Column("object", << << "A", "1", "0", "1" >>, << "A", "1", "0", "1" >> >>) >>
C_name_2 == << << "n", "a", "m", "e", "_", "2" >>, Column("object", << << "H", "i", "l", "l" >>, << "H", "i", "l", "l" >> >>) >>
C_ADM1_REF == << << "A", "D", "M", "1", "_", "R", "E", "F" >>, Column("object", << << "O", "l", "d", "1" >>, << "O", "l", "d", "2" >> >>) >>
C_GEOMETRY == << << "G", "E", "O", "M", "E", "T", "R", "Y" >>, Column("object", << << "P" >>, << "Q" >> >>) >>
C_Shape_Area == << << "S", "h", "a", "p", "e", "_", "A", "r", "e", "a" >>, Column("float64", << << "1", ".", "5" >>, << "2", ".", "5" >> >>) >>

SourceColumns ==
    { C_ADM1_PCODE,
      C_ADM1_EN,
      C_adm1_code,
      C_Admin1Pcode,
      C_ADM1_CODE,
      C_Adm1_Name,
      C_ADM2_PCODE,
      C_name_2,
      C_ADM1_REF,
      C_GEOMETRY,
      C_Shape_Area }

GeometryColumn == Column("geometry", << << "1" >>, << "2" >> >>)

\* read_file: the attribute columns in file order, then the geometry column
SourceLayer(cols) ==
    [columns |-> [i \in 1..Len(cols) |-> cols[i][1]] \o << GEOMETRY_NAME >>,
     col |-> [n \in { cols[i][1] : i \in 1..Len(cols) } \cup { GEOMETRY_NAME } |->
                IF n = GEOMETRY_NAME THEN GeometryColumn
                ELSE cols[IndexOf([i \in 1..Len(cols) |-> cols[i][1]], n)][2]]]

MaxColumns == 3

CountryName == << "A", "b", "c" >>

InitCalculateFields ==
    /\ args \in { [boundary_lyr |-> SourceLayer(cols), iso |-> AAA, country_name |-> CountryName,
                   req_fields |-> ReqFields(level), level |-> level] :
                    cols \in DistinctSeqs(SourceColumns, MaxColumns), level \in Levels }
    /\ result = Pending
    /\ boundaries = Idle
    /\ call = NoCall
    /\ RunIdle
    /\ ConcIdle

CallCalculateFields ==
    /\ result = Pending
    /\ result' = Returned(CalculateFields(args.boundary_lyr, args.iso, args.country_name,
                                          args.req_fields, args.level))
    /\ UNCHANGED << args, boundaries, call, runVars, concVars >>

NextCalculateFields == CallCalculateFields

SpecCalculateFields == InitCalculateFields /\ [][NextCalculateFields]_vars

\* the attribute columns of a layer: all but its geometry column
AttributeColumns(lyr) == SeqToSet(lyr.columns) \ { GEOMETRY_NAME }

\* C8: the attribute columns of the layer that calculate_fields returns are
\* exactly the canonical field list: no source column remains and no
\* canonical column is missing.
C8_SchemaClosure ==
    (result.done /\ ~result.value.raised) =>
        AttributeColumns(result.value.lyr) = SeqToSet(args.req_fields)

\* The claim's own reading of the selection: the exact canonical column if
\* the source layer has it, else the first source column, in column order,
\* that equals one of the variants of the depth when both are put in lower
\* case, else no column.
VariantsAt(patterns, l) ==
    { Lower(ReplaceHash(patterns[k], l)) : k \in 1..Len(patterns) }

ExpectedColumn(src, canonical, patterns, l) ==
    IF \E i \in 1..Len(src.columns) : src.columns[i] = canonical
    THEN canonical
    ELSE IF \E i \in 1..Len(src.columns) : Lower(src.columns[i]) \in VariantsAt(patterns, l)
    THEN src.columns[CHOOSE i \in 1..Len(src.columns) :
                        /\ Lower(src.columns[i]) \in VariantsAt(patterns, l)
                        /\ \A j \in 1..(i - 1) : Lower(src.columns[j]) \notin VariantsAt(patterns, l)]
    ELSE << >>

\* the text of a source cell as the canonical field shows it
ExpectedCell(src, column, i, asInt) ==
    IF column = << >> THEN << >>
    ELSE IF asInt /\ src.col[column].dtype \in { "int64", "float64" }
    THEN IntLiteral(src.col[column].values[i])
    ELSE src.col[column].values[i]

\* per source row, the pcode and the name of every depth as expected
ExpectedRow(src, depth, i) ==
    [k \in 1..(2 * depth) |->
        IF k % 2 = 1
        THEN ExpectedCell(src, ExpectedColumn(src, AdmField((k + 1) \div 2, PCODE), Headers.pcode, (k + 1) \div 2), i, TRUE)
        ELSE ExpectedCell(src, ExpectedColumn(src, AdmField(k \div 2, EN), Headers.name, k \div 2), i, FALSE)]

\* per returned row, the pcode and the name of every depth
ReturnedRow(lyr, depth, g) ==
    [k \in 1..(2 * depth) |->
        IF k % 2 = 1 THEN lyr.col[AdmField((k + 1) \div 2, PCODE)].values[g]
        ELSE lyr.col[AdmField(k \div 2, REF)].values[g]]

-----------------------------------------------------------------------------
(* main and update_subnational_boundaries *)

CCC == << "C", "C", "C" >>

\* the countries main iterates over, configuration["levels"] and
\* configuration.get("do_not_process", [])
RunCountries == << AAA, CCC, BBB >>
RunLevels == << L_adm1, L_adm2 >>
DoNotProcess == { CCC }

\* the resource lists of the boundary datasets Dataset.read_from_hdx can return
DatasetPool ==
    { << R_adm1, R_admin02, R_adm2 >>, << R_bnd, R_roads >>, << R_roads, R_json >> }

\* what glob can find in a downloaded archive
ArchivePool ==
    { << >>, << F_adm1 >>, << F_adm2, F_adm2_simplified, F_roads >>, << F_adm1, F_roads >> }

\* the layers read_file can return
ReadPool ==
    { SourceLayer(<< C_adm1_code, C_ADM1_EN >>),
      SourceLayer(<< C_Adm1_Name >>),
      SourceLayer(<< C_ADM1_CODE, C_ADM1_EN >>) }

\* the most admin-0 records that carry one country's ISO_3
MaxAdm0 == 1

\* the rows of a layer that carry the given indices, in order
KeepRows(lyr, keep) ==
    LET idx == SelectSeq([i \in 1..NumRows(lyr) |-> i], LAMBDA i : i \in keep)
    IN  [columns |-> lyr.columns,
         col |-> [f \in SeqToSet(lyr.columns) |->
                    Column(lyr.col[f].dtype, [g \in 1..Len(idx) |-> lyr.col[f].values[idx[g]]])]]

\* the canonical records of a harmonized layer
ToRecords(lyr, level) ==
    [g \in 1..NumRows(lyr) |->
        Rec(lyr.col[<< "a", "l", "p", "h", "a", "_", "3" >>].values[g],
            [l \in 1..Depth(level) |-> lyr.col[AdmField(l, PCODE)].values[g]],
            lyr.col[AdmField(Depth(level), REF)].values[g])]

Iso == RunCountries[ci]
Level == RunLevels[li]

Logged(what) == Append(log, [iso |-> Iso, level |-> IF li = 0 THEN << >> ELSE Level, what |-> what])

NoLayer == [columns |-> << >>, col |-> << >>]

\* line 235 and the continue statements: on to the next level, or back to
\* main's loop (run.py line 57) after the last one
NextLevel ==
    /\ dataset' = IF li < Len(RunLevels) THEN dataset ELSE << >>
    /\ boundary_resource' = << >>
    /\ boundary_shp' = None
    /\ boundary_lyr' = NoLayer
    /\ IF li < Len(RunLevels)
       THEN li' = li + 1 /\ pc' = "find_resource" /\ ci' = ci
       ELSE li' = 0 /\ pc' = "country" /\ ci' = ci + 1

\* an exception leaves update_subnational_boundaries and main: nothing catches it
Abort ==
    /\ pc' = "aborted"
    /\ UNCHANGED << ci, li, dataset, boundary_resource, boundary_shp, boundary_lyr >>

\* a check of the candidates that lets several pass
IsAmbiguous_Never(found) == FALSE

\* len(boundary_resource) != 1
IsAmbiguous(found) == Len(found) # 1

Init ==
    /\ boundaries = [k \in Keys |-> IF k[1] = L_adm1 THEN << Rec(ZZZ, << P_10 >>, << "E", "a", "s", "t" >>) >>
                                    ELSE << Rec(ZZZ, << P_1, P_10 >>, << "E", "a", "s", "t" >>) >>]
    /\ pc = "country"
    /\ ci = 1
    /\ li = 0
    /\ dataset = << >>
    /\ boundary_resource = << >>
    /\ boundary_shp = None
    /\ boundary_lyr = NoLayer
    /\ log = << >>
    /\ call = NoCall
    /\ args = Idle
    /\ result = Idle
    /\ ConcIdle

\* lines 217-220: a country of do_not_process
SkipCountry ==
    /\ UNCHANGED << call, funVars, concVars >>
    /\ pc = "country"
    /\ ci <= Len(RunCountries)
    /\ Iso \in DoNotProcess
    /\ log' = Logged("not_processed")
    /\ ci' = ci + 1
    /\ UNCHANGED << pc, li, dataset, boundary_resource, boundary_shp, boundary_lyr, boundaries >>

\* lines 225-231: neither cod-em-{iso} nor cod-ab-{iso} is found
NoDataset ==
    /\ UNCHANGED << call, funVars, concVars >>
    /\ pc = "country"
    /\ ci <= Len(RunCountries)
    /\ Iso \notin DoNotProcess
    /\ log' = Logged("no_dataset")
    /\ ci' = ci + 1
    /\ UNCHANGED << pc, li, dataset, boundary_resource, boundary_shp, boundary_lyr, boundaries >>

\* lines 225-235: the dataset is found and create_national_boundary selects n
\* admin-0 records of the country; with none, country_adm0["geometry"][0]
\* (line 68) raises
StartCountry ==
    /\ UNCHANGED << call, funVars, concVars >>
    /\ pc = "country"
    /\ ci <= Len(RunCountries)
    /\ Iso \notin DoNotProcess
    /\ \E ds \in DatasetPool, n \in 0..MaxAdm0 :
          IF n = 0
          THEN /\ log' = Logged("create_national_boundary raised")
               /\ Abort
          ELSE /\ dataset' = ds
               /\ IF Len(RunLevels) = 0
                  THEN ci' = ci + 1 /\ pc' = pc /\ li' = li
                  ELSE ci' = ci /\ pc' = "find_resource" /\ li' = 1
               /\ UNCHANGED << log, boundary_resource, boundary_shp, boundary_lyr >>
    /\ UNCHANGED boundaries

\* lines 242-249
FindResourceStep ==
    /\ UNCHANGED << call, funVars, concVars >>
    /\ pc = "find_resource"
    /\ LET found == FindResource(Iso, dataset, Level)
       IN  IF Len(found) = 0
           THEN log' = Logged("no_resource") /\ NextLevel
           ELSE IF IsAmbiguous(found)
           THEN log' = Logged("ambiguous_resource") /\ NextLevel
           ELSE /\ boundary_resource' = found
                /\ pc' = "find_shapefile"
                /\ UNCHANGED << log, ci, li, dataset, boundary_shp, boundary_lyr >>
    /\ UNCHANGED boundaries

\* lines 252-254
FindShapefileStep ==
    /\ UNCHANGED << call, funVars, concVars >>
    /\ pc = "find_shapefile"
    /\ \E download \in { "ok", "DownloadError" }, archive \in { "ok", "BadZipFile" },
          files \in ArchivePool :
          LET shp == FindShapefile(download, archive, files, Level)
          IN  IF shp = None
              THEN log' = Logged("no_shapefile") /\ NextLevel
              ELSE /\ boundary_shp' = shp
                   /\ pc' = "read_file"
                   /\ UNCHANGED << log, ci, li, dataset, boundary_resource, boundary_lyr >>
    /\ UNCHANGED boundaries

\* lines 257-261: read_file returns a layer, or raises on a file it cannot read
ReadFileStep ==
    /\ UNCHANGED << call, funVars, concVars >>
    /\ pc = "read_file"
    /\ \/ \E lyr \in ReadPool :
             /\ boundary_lyr' = lyr
             /\ pc' = "calculate_fields"
             /\ UNCHANGED << log, ci, li, dataset, boundary_resource, boundary_shp >>
       \/ /\ log' = Logged("read_file raised")
          /\ Abort
    /\ UNCHANGED boundaries

\* lines 264-276
CalculateFieldsStep ==
    /\ UNCHANGED << call, funVars, concVars >>
    /\ pc = "calculate_fields"
    /\ LET out == CalculateFields(boundary_lyr, Iso, CountryName, ReqFields(Level), Level)
       IN  IF out.raised
           THEN /\ log' = Logged("calculate_fields raised")
                /\ Abort
           ELSE /\ boundary_lyr' = out.lyr
                /\ pc' = "update_geometry"
                /\ UNCHANGED << log, ci, li, dataset, boundary_resource, boundary_shp >>
    /\ UNCHANGED boundaries

\* lines 279-285: the simplification and the repair keep the attribute table;
\* the clip to the national boundary keeps the rows whose geometry meets it
UpdateGeometryStep ==
    /\ UNCHANGED << call, funVars, concVars >>
    /\ pc = "update_geometry"
    /\ \E keep \in SUBSET (1..NumRows(boundary_lyr)) :
          boundary_lyr' = KeepRows(boundary_lyr, keep)
    /\ pc' = "replace"
    /\ UNCHANGED << log, ci, li, dataset, boundary_resource, boundary_shp, boundaries >>

\* lines 288-291
ReplaceStep ==
    /\ UNCHANGED << call, funVars, concVars >>
    /\ pc = "replace"
    /\ \E b \in ReplaceCountryBoundaries(boundaries, ToRecords(boundary_lyr, Level), Iso, Level, "polygon") :
          boundaries' \in ReplaceCountryBoundaries(b, ToRecords(boundary_lyr, Level), Iso, Level, "point")
    /\ log' = Logged("merged")
    /\ NextLevel

\* run.py line 63: update_subnational_resources writes the files of the first
\* level; its lookup r["name"] == polygon_name compares a str with a list, so
\* line 304 raises IndexError when there is a level
Upload ==
    /\ UNCHANGED << call, funVars, concVars >>
    /\ pc = "country"
    /\ ci > Len(RunCountries)
    /\ pc' = IF Len(RunLevels) = 0 THEN "done" ELSE "upload_raised"
    /\ UNCHANGED << ci, li, dataset, boundary_resource, boundary_shp, boundary_lyr, log, boundaries >>

Next ==
    \/ SkipCountry
    \/ NoDataset
    \/ StartCountry
    \/ FindResourceStep
    \/ FindShapefileStep
    \/ ReadFileStep
    \/ CalculateFieldsStep
    \/ UpdateGeometryStep
    \/ ReplaceStep
    \/ Upload

Spec == Init /\ [][Next]_vars

\* what the log holds of a kind
LogOf(what) == { i \in 1..Len(log) : log[i].what = what }

\* C1: a failure in a step of a level of a country (national-boundary
\* construction with no admin-0 record, resource resolution, shapefile
\* selection, layer loading, field harmonization such as a numeric pcode
\* column that cannot be cast to integer, geometry harmonization, merging)
\* skips only that level or country: no failure aborts the run, and when
\* main reaches update_subnational_resources every country has been dealt
\* with.
C1_FailuresContained ==
    /\ pc # "aborted"
    /\ pc \in { "done", "upload_raised" } =>
          \A c \in 1..Len(RunCountries) : \E i \in 1..Len(log) : log[i].iso = RunCountries[c]

SkipKinds == { "no_resource", "ambiguous_resource", "no_shapefile", "not_processed", "no_dataset" }

\* C5: a level skipped because find_resource returned no or several
\* candidates or find_shapefile returned none, and a country that is in
\* do_not_process or has no dataset, leave every partition as it was; the
\* partitions change only in the merge of a level for which exactly one
\* resource and one shapefile were selected, and then only that level's.
C5_SkipFrame ==
    [][ /\ (log' # log /\ log'[Len(log')].what \in SkipKinds) => boundaries' = boundaries
        /\ boundaries' # boundaries =>
              /\ pc = "replace"
              /\ Len(boundary_resource) = 1
              /\ boundary_shp # None
              /\ Len(FindResource(Iso, dataset, Level)) = 1
              /\ Iso \notin DoNotProcess
              /\ \A k \in Keys : k[1] # Level => boundaries'[k] = boundaries[k]
      ]_vars

\* main has reached update_subnational_resources after a run in which one
\* level was skipped for several candidates, one for no candidate, one
\* country was not processed and one level was merged, whose records the
\* partitions hold.
C5_Witness ==
    /\ pc = "upload_raised"
    /\ LogOf("ambiguous_resource") # {}
    /\ LogOf("no_resource") # {}
    /\ LogOf("not_processed") # {}
    /\ LogOf("merged") # {}
    /\ \E i \in 1..Len(boundaries[<< L_adm1, "polygon" >>]) :
          boundaries[<< L_adm1, "polygon" >>][i].alpha_3 = AAA

-----------------------------------------------------------------------------
(* Two replace_country_boundaries calls on one partition, run side by side *)

\* the partition both calls merge into, and the country of each call
ConcKey == << L_adm1, "polygon" >>
ConcCountries == << AAA, BBB >>
Writers == 1..Len(ConcCountries)

\* the layers the calls bring: each holds at least one record
ConcLayers(w) == LayerPool(ConcCountries[w], ConcKey[1]) \ { << >> }

\* the serialization the design asks of a parallel implementation: with a
\* mutex per partition, a call enters while no other call is between its read
\* and its write-back
MayEnter(w) == atomic => \A v \in Writers : writers[v].pc # "read"

InitConc ==
    /\ boundaries \in [{ ConcKey } -> InitialPartitions(ConcKey[1])]
    /\ writers \in { ws \in [Writers -> [pc : { "ready" }, layer : UNION { ConcLayers(w) : w \in Writers },
                                         global_bounds : { << >> }]] :
                       \A w \in Writers : ws[w].layer \in ConcLayers(w) }
    /\ atomic \in BOOLEAN
    /\ call = NoCall
    /\ args = Idle
    /\ result = Idle
    /\ RunIdle

\* lines 209-213: the call reads the partition, filters, appends and sorts;
\* global_bounds is a frame of its own
ReadFilterAppendSort(w) ==
    /\ writers[w].pc = "ready"
    /\ MayEnter(w)
    /\ \E b \in ReplaceCountryBoundaries(boundaries, writers[w].layer, ConcCountries[w],
                                         ConcKey[1], ConcKey[2]) :
          writers' = [writers EXCEPT ![w].pc = "read", ![w].global_bounds = b[ConcKey]]
    /\ UNCHANGED << boundaries, atomic, call, funVars, runVars >>

\* line 214: self.boundaries[key] = global_bounds
WriteBack(w) ==
    /\ writers[w].pc = "read"
    /\ boundaries' = [boundaries EXCEPT ![ConcKey] = writers[w].global_bounds]
    /\ writers' = [writers EXCEPT ![w].pc = "done"]
    /\ UNCHANGED << atomic, call, funVars, runVars >>

NextConc ==
    \/ \E w \in Writers : ReadFilterAppendSort(w)
    \/ \E w \in Writers : WriteBack(w)

SpecConc == InitConc /\ [][NextConc]_vars

AllDone == \A w \in Writers : writers[w].pc = "done"

\* the partition misses a record the call of w merged
Lost(w) == \E i \in 1..Len(writers[w].layer) : Count(boundaries[ConcKey], writers[w].layer[i]) = 0

\* the frame the call of w wrote back holds no record of the other calls
ReadBeforeOthersWrote(w) ==
    \A v \in Writers \ { w } : \A i \in 1..Len(writers[v].layer) :
        Count(writers[w].global_bounds, writers[v].layer[i]) = 0

\* C10: when two replace_country_boundaries calls for different countries on
\* one partition have both returned, records of one country are missing from
\* the partition exactly when each call read the partition before the other
\* wrote it back; when read-filter-append-sort and the write-back run
\* atomically per partition, no record is missing.
C10_LostUpdate ==
    AllDone =>
        /\ (\E w \in Writers : Lost(w)) <=> (\A w \in Writers : ReadBeforeOthersWrote(w))
        /\ atomic => \A w \in Writers : ~Lost(w)

\* both calls have returned without serialization and the partition misses
\* the records of one of the two countries
C10_Witness ==
    /\ AllDone
    /\ ~atomic
    /\ \E w \in Writers : Lost(w)
    /\ \E w \in Writers : ~Lost(w)

=============================================================================
